---- MODULE Spec2Model ----
\* Wordle server: the pattern scorer (wordle_core.score_guess), the standard
\* game (NormalWordleGame), the cheating host (CheatingWordleGame) and the
\* request handler of server.py (Handler.handle, broadcast, send_json) with
\* one worker per connection.
EXTENDS Integers, Sequences, FiniteSets, TLC

\* ------------------------------------------------------------------ bounds
MaxLen == 3          \* longest generated scorer input word
NumLetters == 3      \* letters used for the generated scorer input words
MaxAccepted == 2     \* accepted guesses followed with two concurrent workers
MaxSession == 3      \* accepted guesses followed in a single-player session
MaxLong == 7         \* accepted guesses followed with one worker (max_rounds + 1)
MaxCfgRounds == 3    \* largest max_rounds of a GameConfig built for one game object
MaxCalls == 4        \* guess_word results followed on one game object

\* --------------------------------------------------------------- constants
HIT == "O"
PRESENT == "?"
MISS == "_"
MaxRounds == 6
WordLen == 5

\* ----------------------------------------------------------------- strings
\* A string is a sequence of one-character strings.
crane == <<"c", "r", "a", "n", "e">>
arena == <<"a", "r", "e", "n", "a">>
sassy == <<"s", "a", "s", "s", "y">>
grass == <<"g", "r", "a", "s", "s">>
nacre == <<"n", "a", "c", "r", "e">>
cran == <<"c", "r", "a", "n">>
ArenaRaw == <<"A", "r", "e", "n", "a", " ">>
CraneRaw == <<" ", "C", "R", "A", "N", "E">>

LetterSeq == <<"a", "b", "c", "d", "e">>

\* str.lower() on one character
LowerChar(ch) ==
    CASE ch = "A" -> "a"
      [] ch = "C" -> "c"
      [] ch = "E" -> "e"
      [] ch = "N" -> "n"
      [] ch = "R" -> "r"
      [] OTHER -> ch

Lower(w) == [i \in 1..Len(w) |-> LowerChar(w[i])]

RECURSIVE LStrip(_)
LStrip(w) == IF w # <<>> /\ Head(w) = " " THEN LStrip(Tail(w)) ELSE w

RECURSIVE RStrip(_)
RStrip(w) ==
    IF w # <<>> /\ w[Len(w)] = " " THEN RStrip(SubSeq(w, 1, Len(w) - 1)) ELSE w

Strip(w) == RStrip(LStrip(w))

normalize(w) == Lower(Strip(w))

\* ------------------------------------------------------------------ scorer
\* the outcome "raise ValueError"; no pattern holds this token
ValueError == <<"ValueError">>

Chars(w) == {w[i] : i \in 1..Len(w)}

\* (variant: every answer letter is counted, the hits included)
FirstPassRemainAll(a, g) ==
    [x \in Chars(a) \cup Chars(g) |->
        Cardinality({i \in 1..Len(a) : a[i] = x})]

\* first pass: hits, and the count of every answer letter that is not a hit
FirstPassRes(a, g) == [i \in 1..Len(a) |-> IF g[i] = a[i] THEN HIT ELSE MISS]

FirstPassRemain(a, g) ==
    [x \in Chars(a) \cup Chars(g) |->
        Cardinality({i \in 1..Len(a) : a[i] = x /\ g[i] # a[i]})]

\* (variant: a present letter does not use up its count)
RECURSIVE SecondPassNoDecrement(_, _, _, _)
SecondPassNoDecrement(g, res, remain, i) ==
    IF i > Len(g) THEN res
    ELSE IF res[i] = HIT THEN SecondPassNoDecrement(g, res, remain, i + 1)
    ELSE IF remain[g[i]] > 0
         THEN SecondPassNoDecrement(g, [res EXCEPT ![i] = PRESENT], remain, i + 1)
         ELSE SecondPassNoDecrement(g, res, remain, i + 1)

\* second pass: positions i..len in order, consuming the remaining counts
RECURSIVE SecondPass(_, _, _, _)
SecondPass(g, res, remain, i) ==
    IF i > Len(g) THEN res
    ELSE IF res[i] = HIT THEN SecondPass(g, res, remain, i + 1)
    ELSE IF remain[g[i]] > 0
         THEN SecondPass(g, [res EXCEPT ![i] = PRESENT],
                         [remain EXCEPT ![g[i]] = @ - 1], i + 1)
         ELSE SecondPass(g, res, remain, i + 1)

ScoreNormalized(a, g) ==
    SecondPass(g, FirstPassRes(a, g), FirstPassRemain(a, g), 1)

score_guess(answer, guess) ==
    LET a == normalize(answer)
        g == normalize(guess)
    IN IF Len(a) # Len(g) THEN ValueError ELSE ScoreNormalized(a, g)

\* ------------------------------------------------------------ standard game
\* RoundResult
RoundResult(guess, tokens, remaining, won, over) ==
    [guess |-> guess, tokens |-> tokens, remaining |-> remaining,
     won |-> won, over |-> over]

AllHit(tokens) == \A i \in 1..Len(tokens) : tokens[i] = HIT

\* NormalWordleGame.__init__
NewNormalGame(answer) ==
    [answer |-> normalize(answer), round |-> 0, history |-> <<>>]

\* the checks of NormalWordleGame.guess_word that raise before any mutation
GuessRaises(game, wordList, word) ==
    LET w == normalize(word)
    IN Len(w) # Len(game.answer) \/ w \notin wordList

\* (variant: the round limit does not end the game)
GuessResultNoLimit(game, maxRounds, word) ==
    LET w == normalize(word)
        round == game.round + 1
        tokens == score_guess(game.answer, w)
        won == AllHit(tokens)
    IN RoundResult(w, tokens, maxRounds - round, won, won)

\* the RoundResult NormalWordleGame.guess_word builds when it does not raise
GuessResult(game, maxRounds, word) ==
    LET w == normalize(word)
        round == game.round + 1
        tokens == score_guess(game.answer, w)
        won == AllHit(tokens)
        over == won \/ round >= maxRounds
    IN RoundResult(w, tokens, maxRounds - round, won, over)

\* the game after NormalWordleGame.guess_word returned
GuessApply(game, maxRounds, word) ==
    [game EXCEPT !.round = @ + 1,
                 !.history = Append(@, GuessResult(game, maxRounds, word))]

\* ------------------------------------------------------------ cheating host
CountOf(pat, tok) == Cardinality({i \in 1..Len(pat) : pat[i] = tok})

\* CheatingWordleGame.__init__
NewCheatGame(wordList) == [candidates |-> wordList, final |-> <<>>, round |-> 0]

\* buckets: the candidates grouped by the pattern the guess scores against them
BucketKeys(cands, w) == {score_guess(c, w) : c \in cands}
\* (variant: the words that do not score the pattern are kept)
BucketOthers(cands, w, pat) == {c \in cands : score_guess(c, w) # pat}

\* (variant: the guessed word is put into the bucket)
BucketWithGuess(cands, w, pat) == {c \in cands : score_guess(c, w) = pat} \cup {w}

Bucket(cands, w, pat) == {c \in cands : score_guess(c, w) = pat}

\* (variant: the bucket with the most hits is preferred)
BeatsMostHits(cands, w, k, best) ==
    LET h == CountOf(k, HIT)
        p == CountOf(k, PRESENT)
        bh == CountOf(best, HIT)
        bp == CountOf(best, PRESENT)
    IN \/ h > bh
       \/ h = bh /\ p < bp
       \/ /\ h = bh /\ p = bp
          /\ Cardinality(Bucket(cands, w, k)) > Cardinality(Bucket(cands, w, best))

\* (h, p) < (bh, bp) or ((h, p) == (bh, bp) and len(s) > len(best_set))
Beats(cands, w, k, best) ==
    LET h == CountOf(k, HIT)
        p == CountOf(k, PRESENT)
        bh == CountOf(best, HIT)
        bp == CountOf(best, PRESENT)
    IN \/ h < bh
       \/ h = bh /\ p < bp
       \/ /\ h = bh /\ p = bp
          /\ Cardinality(Bucket(cands, w, k)) > Cardinality(Bucket(cands, w, best))

\* the keys the selection loop can end with: the first key, in the iteration
\* order of the dict, that no other key beats; the order follows the string
\* hashes of the process, so any such key can be the one
BestKeys(cands, w) ==
    {k \in BucketKeys(cands, w) :
        \A k2 \in BucketKeys(cands, w) : ~Beats(cands, w, k2, k)}

\* CheatingWordleGame.guess_word raises: word not in the dictionary, a length
\* mismatch in the delegated game or in score_guess, or no bucket at all
CheatRaises(game, wordList, word) ==
    LET w == normalize(word)
    IN \/ w \notin wordList
       \/ game.final # <<>> /\ Len(w) # Len(normalize(game.final[1]))
       \/ game.final = <<>> /\ game.candidates = {}
       \/ game.final = <<>> /\ \E c \in game.candidates : Len(normalize(c)) # Len(w)

\* the outcomes [rr, game] of CheatingWordleGame.guess_word when it returns
CheatOutcomes(game, wordList, maxRounds, word) ==
    LET w == normalize(word)
    IN IF game.final # <<>>
       THEN {[rr |-> GuessResult(NewNormalGame(game.final[1]), maxRounds, w),
              game |-> game]}
       ELSE LET round == game.round + 1
            IN {[rr |-> RoundResult(w, k, maxRounds - round, FALSE,
                                    round >= maxRounds),
                 game |-> [candidates |-> Bucket(game.candidates, w, k),
                           final |-> IF Cardinality(Bucket(game.candidates, w, k)) = 1
                                     THEN <<CHOOSE c \in Bucket(game.candidates, w, k) : TRUE>>
                                     ELSE <<>>,
                           round |-> round]] :
                 k \in BestKeys(game.candidates, w)}

\* ------------------------------------------------------------------ server
Conns == {"c1", "c2"}          \* one worker thread per connection
RoomId == "r1"                 \* the id of the room that is followed
SessId == "s1"                 \* the id of the single-player session that is followed
WL == {crane, arena}           \* wordlists/common_5.txt as loaded
Players == {"alice", ""}       \* caller-supplied player identities
GuessWords == {crane, arena, ArenaRaw, nacre, cran}
Free == "free"
None == <<>>
Some(x) == <<x>>

VARIABLES
    sessions,   \* dict id -> NormalWordleGame or CheatingWordleGame
    multis,     \* dict id -> MultiRoom (answer, game, players, streams, over, lock)
    pc,         \* per worker: position in Handler.handle
    player,     \* per worker: local 'player'
    word,       \* per worker: local 'word'
    data,       \* per worker: local 'data' (None or Some(record))
    winner,     \* per worker: local 'winner' (None or Some(player))
    dead,       \* per worker: local 'dead' of the running broadcast
    out,        \* per worker: messages written while serving the current line
    resp,       \* per worker: direct responses written for the last line read
    served,     \* per worker: a line has been read
    credited,   \* number of guesses credited as winner
    gameOvers,  \* number of game_over broadcasts issued
    sc_pc, sc_t, sc_g, sc_res,  \* scorer harness: inputs and result
    gm_kind,    \* game harness: "normal", "cheat" or "off"
    gm_cfg,     \* game harness: the GameConfig (max_rounds, word_list)
    gm_game,    \* game harness: the game object
    gm_k,       \* game harness: guess_word calls that returned a result
    gm_last,    \* game harness: the last call (word, raised, rr)
    gm_seen,    \* game harness: the (guess, pattern) pairs returned so far
    gm_over,    \* game harness: a result with over = true has been returned
    gm_ref      \* game harness: a NormalWordleGame built when the cheat game resolved

vars == <<sessions, multis, pc, player, word, data, winner, dead, out, resp, served,
          credited, gameOvers, sc_pc, sc_t, sc_g, sc_res,
          gm_kind, gm_cfg, gm_game, gm_k, gm_last, gm_seen, gm_over, gm_ref>>

scVars == <<sc_pc, sc_t, sc_g, sc_res>>

gmVars == <<gm_kind, gm_cfg, gm_game, gm_k, gm_last, gm_seen, gm_over, gm_ref>>

\* MultiRoom.__init__
MultiRoom(answer) ==
    [answer |-> answer, game |-> NewNormalGame(answer), players |-> {},
     streams |-> {}, over |-> FALSE, lock |-> Free]

HasRoom == RoomId \in DOMAIN multis
Room == multis[RoomId]

\* a JSON line written to one connection or fanned out
Msg(kind, ok, d, locked) ==
    [kind |-> kind, ok |-> ok, data |-> d, locked |-> locked]

HoldsLock(c) == HasRoom /\ Room.lock = c

\* Python truthiness of 'winner'
Truthy(w) == w # None /\ w[1] # ""

InitServer ==
    /\ sessions = <<>>
    /\ multis = <<>>
    /\ pc = [c \in Conns |-> "idle"]
    /\ player = [c \in Conns |-> ""]
    /\ word = [c \in Conns |-> <<>>]
    /\ data = [c \in Conns |-> None]
    /\ winner = [c \in Conns |-> None]
    /\ dead = [c \in Conns |-> {}]
    /\ out = [c \in Conns |-> <<>>]
    /\ resp = [c \in Conns |-> 0]
    /\ served = [c \in Conns |-> FALSE]
    /\ credited = 0
    /\ gameOvers = 0

InitScoreIdle ==
    /\ sc_pc = "off"
    /\ sc_t = <<>>
    /\ sc_g = <<>>
    /\ sc_res = <<>>

InitGameIdle ==
    /\ gm_kind = "off"
    /\ gm_cfg = <<>>
    /\ gm_game = <<>>
    /\ gm_k = 0
    /\ gm_last = None
    /\ gm_seen = {}
    /\ gm_over = FALSE
    /\ gm_ref = None

Init == InitServer /\ InitScoreIdle /\ InitGameIdle

\* the worker reads the next line (rfile.readline returned a request)
StartLine(c) ==
    /\ pc[c] = "idle"
    /\ served' = [served EXCEPT ![c] = TRUE]

\* the worker is back at rfile.readline: the locals of the iteration are gone
Finish(c) ==
    /\ pc' = [pc EXCEPT ![c] = "idle"]
    /\ player' = [player EXCEPT ![c] = ""]
    /\ word' = [word EXCEPT ![c] = <<>>]
    /\ data' = [data EXCEPT ![c] = None]
    /\ winner' = [winner EXCEPT ![c] = None]
    /\ dead' = [dead EXCEPT ![c] = {}]
    /\ out' = [out EXCEPT ![c] = <<>>]

\* send_json(self, {"ok": False, "error": ...}) from the outer except clause:
\* malformed JSON, unknown action, unknown mode, unknown room or game id
RecvError(c) ==
    /\ StartLine(c)
    /\ resp' = [resp EXCEPT ![c] = 1]
    /\ UNCHANGED <<multis, pc, player, word, data, winner, dead, out, credited,
                   gameOvers, sessions, scVars, gmVars>>

\* action "create_multi": a new room under a fresh id, then the ack; a room
\* created while the followed room exists gets another id and is not followed
RecvCreateMulti(c) ==
    /\ StartLine(c)
    /\ \E ans \in WL :
         multis' = IF HasRoom THEN multis
                   ELSE [g \in {RoomId} |-> MultiRoom(ans)]
    /\ resp' = [resp EXCEPT ![c] = 1]
    /\ UNCHANGED <<pc, player, word, data, winner, dead, out, credited,
                   gameOvers, sessions, scVars, gmVars>>

\* action "guess" with the id of the room: the locals are set and
\* 'with room.lock' is entered (the worker blocks until the lock is free; the
\* read itself touches no shared state)
RecvGuess(c, cap, words, players) ==
    /\ StartLine(c)
    /\ HasRoom
    /\ Len(Room.game.history) < cap
    /\ Room.lock = Free
    /\ \E p \in players, w \in words :
         /\ player' = [player EXCEPT ![c] = p]
         /\ word' = [word EXCEPT ![c] = Lower(w)]
    /\ multis' = [multis EXCEPT ![RoomId].lock = c]
    /\ pc' = [pc EXCEPT ![c] = "g_in"]
    /\ resp' = [resp EXCEPT ![c] = 0]
    /\ UNCHANGED <<data, winner, dead, out, credited, gameOvers, sessions, scVars, gmVars>>

\* action "join" with the id of the room, up to entering 'with room.lock'
RecvJoin(c, players) ==
    /\ StartLine(c)
    /\ HasRoom
    /\ Room.lock = Free
    /\ \E p \in players : player' = [player EXCEPT ![c] = p]
    /\ multis' = [multis EXCEPT ![RoomId].lock = c]
    /\ pc' = [pc EXCEPT ![c] = "j_in"]
    /\ resp' = [resp EXCEPT ![c] = 0]
    /\ UNCHANGED <<word, data, winner, dead, out, credited, gameOvers, sessions, scVars, gmVars>>

\* the snapshot 'data' of the guess branch
Snapshot(p, rr) ==
    [player |-> p, tokens |-> rr.tokens, won |-> rr.won, over |-> rr.over,
     remaining |-> rr.remaining]

\* winner = player if rr.won and not room.over else None
DecideWinner(p, rr, roomOver) == IF rr.won /\ ~roomOver THEN Some(p) ELSE None

\* (variant: the round is counted before the guess is validated)
RejectedRoomCounted(attached) == [attached EXCEPT !.game.round = @ + 1]

\* the room a rejected guess leaves behind: the connection is attached, the
\* game and the over flag are not touched
RejectedRoom(attached) == attached

\* (variant: the ack is left out, the fan-out comes first)
AfterGuessLockNoAck == "g_bc"

\* the position after the 'with room.lock' block of an accepted guess
AfterGuessLock == "g_ack"

\* the body of 'with room.lock' in the guess branch, up to the rejection
\* (still inside the lock) or to the end of the block (lock released)
GuessLocked(c) ==
    /\ pc[c] = "g_in"
    /\ LET attached == [Room EXCEPT !.streams = @ \cup {c}]
       IN IF attached.over \/ GuessRaises(attached.game, WL, word[c])
          THEN /\ multis' = [multis EXCEPT ![RoomId] = RejectedRoom(attached)]
               /\ pc' = [pc EXCEPT ![c] = "g_rej"]
               /\ UNCHANGED <<data, winner, credited>>
          ELSE LET rr == GuessResult(attached.game, MaxRounds, word[c])
                   w == DecideWinner(player[c], rr, attached.over)
               IN /\ multis' = [multis EXCEPT ![RoomId] =
                        [attached EXCEPT
                            !.game = GuessApply(attached.game, MaxRounds, word[c]),
                            !.over = IF Truthy(w) THEN TRUE ELSE @,
                            !.lock = Free]]
                  /\ data' = [data EXCEPT ![c] = Some(Snapshot(player[c], rr))]
                  /\ winner' = [winner EXCEPT ![c] = w]
                  /\ credited' = IF Truthy(w) THEN credited + 1 ELSE credited
                  /\ pc' = [pc EXCEPT ![c] = AfterGuessLock]
    /\ player' = [player EXCEPT ![c] = ""]
    /\ word' = [word EXCEPT ![c] = <<>>]
    /\ UNCHANGED <<dead, out, resp, served, gameOvers, sessions, scVars, gmVars>>

\* (variant: the rejection is answered again by the outer except clause)
GuessRejectTwice(c) ==
    /\ pc[c] = "g_rej"
    /\ resp' = [resp EXCEPT ![c] = @ + 2]
    /\ multis' = [multis EXCEPT ![RoomId].lock = Free]
    /\ Finish(c)
    /\ UNCHANGED <<served, credited, gameOvers, sessions, scVars, gmVars>>

\* send_json(self, {"ok": False, ...}) inside 'with room.lock', then 'continue'
\* leaves the block and releases the lock
GuessReject(c) ==
    /\ pc[c] = "g_rej"
    /\ resp' = [resp EXCEPT ![c] = @ + 1]
    /\ multis' = [multis EXCEPT ![RoomId].lock = Free]
    /\ Finish(c)
    /\ UNCHANGED <<served, credited, gameOvers, sessions, scVars, gmVars>>

\* send_json(self, {"ok": True, **data})
GuessAck(c) ==
    /\ pc[c] = "g_ack"
    /\ resp' = [resp EXCEPT ![c] = @ + 1]
    /\ out' = [out EXCEPT ![c] = Append(@, Msg("ack", TRUE, data[c], HoldsLock(c)))]
    /\ pc' = [pc EXCEPT ![c] = "g_bc"]
    /\ UNCHANGED <<multis, player, word, data, winner, dead, served, credited,
                   gameOvers, sessions, scVars, gmVars>>

\* (variant: the snapshot is taken before the player is added)
JoinSnapshotBefore(room, p) == room.players

\* players_list = list(room.players), after room.players.add(player)
JoinSnapshot(room, p) == room.players \cup {p}

\* the body of 'with room.lock' in the join branch
JoinLocked(c) ==
    /\ pc[c] = "j_in"
    /\ multis' = [multis EXCEPT ![RoomId].players = @ \cup {player[c]},
                                ![RoomId].streams = @ \cup {c},
                                ![RoomId].lock = Free]
    /\ data' = [data EXCEPT ![c] = Some(JoinSnapshot(Room, player[c]))]
    /\ pc' = [pc EXCEPT ![c] = "j_ack"]
    /\ UNCHANGED <<player, word, winner, dead, out, resp, served, credited,
                   gameOvers, sessions, scVars, gmVars>>

\* send_json(self, {"ok": True, "joined": player, "players": players_list})
JoinAck(c) ==
    /\ pc[c] = "j_ack"
    /\ resp' = [resp EXCEPT ![c] = @ + 1]
    /\ out' = [out EXCEPT ![c] = Append(@, Msg("joined", TRUE, data[c], HoldsLock(c)))]
    /\ pc' = [pc EXCEPT ![c] = "j_bc"]
    /\ UNCHANGED <<multis, player, word, data, winner, dead, served, credited,
                   gameOvers, sessions, scVars, gmVars>>

\* the event a broadcast at this position carries
BroadcastKind(at) ==
    CASE at = "j_bc" -> "join"
      [] at = "g_bc" -> "guess"
      [] at = "o_bc" -> "game_over"

\* (variant: the guess event is rebuilt from the game's latest round at send time)
BroadcastPayloadLatest(c) ==
    IF pc[c] = "o_bc" THEN winner[c]
    ELSE IF pc[c] = "g_bc"
         THEN Some(Snapshot(data[c][1].player,
                            Room.game.history[Len(Room.game.history)]))
         ELSE data[c]

\* the payload of the event: the snapshot taken under the lock (or the winner)
BroadcastPayload(c) == IF pc[c] = "o_bc" THEN winner[c] ELSE data[c]

\* (variant: the loop stops at a failed write)
DeliveredNone(targets, failed) == IF failed = {} THEN targets ELSE {}

\* the handlers of list(room.streams) whose write succeeded: every handler is
\* written inside its own try, so a failed write only adds that handler to 'dead'
Delivered(targets, failed) == targets \ failed

\* a message fanned out, with the connections it reached
FanOut(msg, to) ==
    [kind |-> msg.kind, ok |-> msg.ok, data |-> msg.data, locked |-> msg.locked,
     to |-> to]

\* broadcast(), first loop: list(room.streams), one write per handler, the
\* handlers whose write raised are collected in 'dead'
BroadcastWrite(c) ==
    /\ pc[c] \in {"j_bc", "g_bc", "o_bc"}
    /\ \E failed \in SUBSET Room.streams :
         /\ dead' = [dead EXCEPT ![c] = failed]
         /\ out' = [out EXCEPT ![c] = Append(@,
                FanOut(Msg(BroadcastKind(pc[c]), TRUE, BroadcastPayload(c),
                           HoldsLock(c)),
                       Delivered(Room.streams, failed)))]
    /\ gameOvers' = IF pc[c] = "o_bc" THEN gameOvers + 1 ELSE gameOvers
    /\ pc' = [pc EXCEPT ![c] = CASE pc[c] = "j_bc" -> "j_bcd"
                                 [] pc[c] = "g_bc" -> "g_bcd"
                                 [] pc[c] = "o_bc" -> "o_bcd"]
    /\ UNCHANGED <<multis, player, word, data, winner, resp, served, credited,
                   sessions, scVars, gmVars>>

\* broadcast(), second loop: room.streams.discard(d) for d in dead; then the
\* handler goes on: 'if winner: broadcast(game_over)' after the guess fan-out
BroadcastDiscard(c) ==
    /\ pc[c] \in {"j_bcd", "g_bcd", "o_bcd"}
    /\ multis' = [multis EXCEPT ![RoomId].streams = @ \ dead[c]]
    /\ IF pc[c] = "g_bcd" /\ Truthy(winner[c])
       THEN /\ pc' = [pc EXCEPT ![c] = "o_bc"]
            /\ dead' = [dead EXCEPT ![c] = {}]
            /\ UNCHANGED <<player, word, data, winner, out>>
       ELSE Finish(c)
    /\ UNCHANGED <<resp, served, credited, gameOvers, sessions, scVars, gmVars>>

HasSession == SessId \in DOMAIN sessions
Session == sessions[SessId]

\* action "create", mode "normal" or "cheat": a new session under a fresh id,
\* then the ack; a session created while the followed one exists gets another
\* id and is not followed
RecvCreate(c) ==
    /\ StartLine(c)
    /\ \E g \in {[kind |-> "normal", game |-> NewNormalGame(ans)] : ans \in WL}
                \cup {[kind |-> "cheat", game |-> NewCheatGame(WL)]} :
         sessions' = IF HasSession THEN sessions ELSE [i \in {SessId} |-> g]
    /\ resp' = [resp EXCEPT ![c] = 1]
    /\ UNCHANGED <<multis, pc, player, word, data, winner, dead, out, credited,
                   gameOvers, scVars, gmVars>>

SessionRound == IF Session.kind = "normal" THEN Len(Session.game.history)
                ELSE Session.game.round

\* action "guess" with the id of the session: game.guess_word(word), then the
\* error response or the result response
RecvGuessSingle(c, cap, words) ==
    /\ StartLine(c)
    /\ HasSession
    /\ SessionRound < cap
    /\ \E w \in words :
         LET lw == Lower(w)
         IN IF Session.kind = "normal"
            THEN sessions' =
                   IF GuessRaises(Session.game, WL, lw) THEN sessions
                   ELSE [sessions EXCEPT ![SessId].game =
                            GuessApply(Session.game, MaxRounds, lw)]
            ELSE IF CheatRaises(Session.game, WL, lw)
                 THEN sessions' = sessions
                 ELSE \E o \in CheatOutcomes(Session.game, WL, MaxRounds, lw) :
                        sessions' = [sessions EXCEPT ![SessId].game = o.game]
    /\ resp' = [resp EXCEPT ![c] = 1]
    /\ UNCHANGED <<multis, pc, player, word, data, winner, dead, out, credited,
                   gameOvers, scVars, gmVars>>

Handler(c, cap, words, players) ==
    \/ RecvError(c)
    \/ RecvCreateMulti(c)
    \/ RecvGuess(c, cap, words, players)
    \/ RecvJoin(c, players)
    \/ GuessLocked(c)
    \/ GuessReject(c)
    \/ GuessAck(c)
    \/ JoinLocked(c)
    \/ JoinAck(c)
    \/ BroadcastWrite(c)
    \/ BroadcastDiscard(c)

\* two workers, any player identity, a short game
Next == \E c \in Conns : Handler(c, MaxAccepted, GuessWords, Players)

Spec == Init /\ [][Next]_vars

\* one worker, a non-empty player identity, a game past the round limit
NextLong == Handler("c1", MaxLong, GuessWords, {"alice"})

SpecLong == Init /\ [][NextLong]_vars

\* one worker, every kind of request line
NextDispatch ==
    \/ Handler("c1", MaxAccepted, GuessWords, Players)
    \/ RecvCreate("c1")
    \/ RecvGuessSingle("c1", MaxSession, GuessWords)

SpecDispatch == Init /\ [][NextDispatch]_vars

\* one worker, one single-player session followed past the round limit
NextSession == RecvCreate("c1") \/ RecvGuessSingle("c1", MaxLong, GuessWords)

SpecSession == Init /\ [][NextSession]_vars

\* the scorer applied to one pair of inputs
ExampleWords == {crane, arena, sassy, grass, cran, ArenaRaw, CraneRaw}

RECURSIVE WordsOfLen(_)
WordsOfLen(n) ==
    IF n = 0 THEN {<<>>}
    ELSE {Append(w, LetterSeq[i]) : w \in WordsOfLen(n - 1), i \in 1..NumLetters}

ScoreInputs == ExampleWords \cup UNION {WordsOfLen(n) : n \in 1..MaxLen}

InitScore ==
    /\ InitServer
    /\ InitGameIdle
    /\ sc_pc = "input"
    /\ sc_t \in ScoreInputs
    /\ sc_g \in ScoreInputs
    /\ sc_res = <<>>

ScoreStep ==
    /\ sc_pc = "input"
    /\ sc_res' = score_guess(sc_t, sc_g)
    /\ sc_pc' = "done"
    /\ UNCHANGED <<sessions, multis, pc, player, word, data, winner, dead, out,
                   resp, served, credited, gameOvers, sc_t, sc_g, gmVars>>

SpecScore == InitScore /\ [][ScoreStep]_vars

\* ------------------------------------------------------------ game harness
\* guess_word called directly on one game object under one GameConfig
srvVars == <<sessions, multis, pc, player, word, data, winner, dead, out, resp,
             served, credited, gameOvers>>

\* word lists a GameConfig is built with
FiveList == {<<"a", "a">>, <<"a", "b">>, <<"b", "b">>, <<"c", "c">>, <<"c", "b">>}
TieList == {<<"a", "b">>, <<"a", "c">>, <<"c", "b">>}
SizeList == {<<"a", "a">>, <<"a", "b">>, <<"a", "c">>, <<"c", "b">>}
SingleList == {<<"a", "b">>}
GameLists == {WL, FiveList, TieList, SizeList, SingleList}

\* the words passed to guess_word: the list itself, words outside it, a word
\* of another length and words that need normalizing
GameGuesses(wordList) ==
    wordList \cup {cran, <<"a", "d">>, <<"A", "b">>, <<" ", "c", "b">>, ArenaRaw}

\* GameConfig
GameConfig(maxRounds, wordList) == [max_rounds |-> maxRounds, word_list |-> wordList]

InitGame ==
    /\ InitServer
    /\ InitScoreIdle
    /\ \E m \in 1..MaxCfgRounds, wl \in GameLists :
         /\ gm_cfg = GameConfig(m, wl)
         /\ \/ gm_kind = "normal" /\ \E ans \in wl : gm_game = NewNormalGame(ans)
            \/ gm_kind = "cheat" /\ gm_game = NewCheatGame(wl)
    /\ gm_k = 0
    /\ gm_last = None
    /\ gm_seen = {}
    /\ gm_over = FALSE
    /\ gm_ref = None

\* (variant: the round is counted before the word is checked)
GameAfterRaiseCounted(game) == [game EXCEPT !.round = @ + 1]

\* guess_word raised before any assignment to self
GameAfterRaise(game) == game

\* the harness's record of a call that returned rr
Returned(w, rr) ==
    /\ gm_last' = Some([word |-> w, raised |-> FALSE, rr |-> Some(rr)])
    /\ gm_k' = gm_k + 1
    /\ gm_seen' = gm_seen \cup {[guess |-> rr.guess, pattern |-> rr.tokens]}
    /\ gm_over' = (gm_over \/ rr.over)

\* the harness's record of a call that raised
Raised(w) ==
    /\ gm_last' = Some([word |-> w, raised |-> TRUE, rr |-> None])
    /\ UNCHANGED <<gm_k, gm_seen, gm_over>>

\* NormalWordleGame.guess_word(w)
GameGuessNormal ==
    /\ gm_kind = "normal"
    /\ gm_k < MaxCalls /\ gm_k <= gm_cfg.max_rounds
    /\ \E w \in GameGuesses(gm_cfg.word_list) :
         IF GuessRaises(gm_game, gm_cfg.word_list, w)
         THEN /\ gm_game' = GameAfterRaise(gm_game)
              /\ Raised(w)
         ELSE /\ gm_game' = GuessApply(gm_game, gm_cfg.max_rounds, w)
              /\ Returned(w, GuessResult(gm_game, gm_cfg.max_rounds, w))
    /\ UNCHANGED <<gm_kind, gm_cfg, gm_ref, srvVars, scVars>>

\* the NormalWordleGame instance the resolved cheat game is compared with: built
\* with the resolved answer when the candidates reach one word, then given every
\* further guess
RefAfter(game, after, w) ==
    IF game.final = <<>>
    THEN IF after.final # <<>> THEN Some(NewNormalGame(after.final[1])) ELSE None
    ELSE Some(GuessApply(gm_ref[1], gm_cfg.max_rounds, w))

\* CheatingWordleGame.guess_word(w)
GameGuessCheat ==
    /\ gm_kind = "cheat"
    /\ gm_k < MaxCalls /\ gm_k <= gm_cfg.max_rounds
    /\ \E w \in GameGuesses(gm_cfg.word_list) :
         IF CheatRaises(gm_game, gm_cfg.word_list, w)
         THEN /\ gm_game' = GameAfterRaise(gm_game)
              /\ Raised(w)
              /\ UNCHANGED gm_ref
         ELSE \E o \in CheatOutcomes(gm_game, gm_cfg.word_list, gm_cfg.max_rounds, w) :
                /\ gm_game' = o.game
                /\ Returned(w, o.rr)
                /\ gm_ref' = RefAfter(gm_game, o.game, w)
    /\ UNCHANGED <<gm_kind, gm_cfg, srvVars, scVars>>

NextGame == GameGuessNormal \/ GameGuessCheat

SpecGame == InitGame /\ [][NextGame]_vars

\* ------------------------------------------------------------------ claims
History == Room.game.history
WinProcessed == \E i \in 1..Len(History) : History[i].won
Kinds(c) == [i \in 1..Len(out[c]) |-> out[c][i].kind]

\* C1: once a winning (all-HIT) guess has been processed in a room, whatever
\* the player identity, the room is over, exactly one guess has been credited
\* as winner and at most one game_over broadcast has been issued.
C1_SingleWinner ==
    HasRoom /\ WinProcessed => Room.over /\ credited = 1 /\ gameOvers <= 1

\* C2: once the game has returned a result with over = true (won, or the
\* round limit reached), no later guess is evaluated: such a result can only
\* be the last entry of the history.
C2_TerminalRejects ==
    HasRoom => \A i \in 1..Len(History) : History[i].over => i = Len(History)

C4_ConsistentFanOut ==
    \A c \in Conns :
        pc[c] \in {"g_ack", "g_bc", "g_bcd", "o_bc", "o_bcd"} =>
            /\ data[c] # None
            /\ LET d == data[c][1]
                   idx == MaxRounds - d.remaining
               IN /\ idx \in 1..Len(History)
                  /\ d = Snapshot(d.player, History[idx])
            /\ \A i \in 1..Len(out[c]) :
                 out[c][i].kind \in {"ack", "guess"} => out[c][i].data = data[c]

\* ack and broadcast of a guess are out while a later guess has been recorded
C4_Witness ==
    \E c \in Conns :
        /\ pc[c] = "g_bcd"
        /\ Kinds(c) = <<"ack", "guess">>
        /\ Len(History) > MaxRounds - data[c][1].remaining

\* C5: for an accepted guess the ack is issued before the 'guess' broadcast,
\* and the 'game_over' broadcast after the 'guess' broadcast.
C5_NotificationOrder ==
    \A c \in Conns : \A i \in 1..Len(out[c]) :
        /\ out[c][i].kind = "guess" => \E j \in 1..(i - 1) : out[c][j].kind = "ack"
        /\ out[c][i].kind = "game_over" =>
              \E j \in 1..(i - 1) : out[c][j].kind = "guess"

\* a winning guess has issued its three notifications
C5_Witness == \E c \in Conns : Kinds(c) = <<"ack", "guess", "game_over">>

\* positions of a room request whose next operation is a network write
AboutToWrite(c) == pc[c] \in {"g_rej", "g_ack", "j_ack", "g_bc", "j_bc", "o_bc"}

\* C6: no network write of a room join or guess request (ack, rejection or
\* broadcast) is attempted while the writing worker holds the room's lock.
C6_LockReleasedBeforeIO == \A c \in Conns : AboutToWrite(c) => ~HoldsLock(c)

\* positions whose next operation reads or writes room.over, the game's
\* round/history or room.streams
AboutToAccess(c) ==
    pc[c] \in {"g_in", "j_in", "g_bc", "j_bc", "o_bc", "g_bcd", "j_bcd", "o_bcd"}

\* C7: every read and write of the over flag, the game's mutable fields and
\* the connection set is done by a worker holding the room's lock, the reads
\* and removals of broadcast included.
C7_LockDiscipline == \A c \in Conns : AboutToAccess(c) => HoldsLock(c)

\* C8: every request line read on a connection gets exactly one direct
\* response (an object with an 'ok' field) on that connection: never two
\* while it is served, exactly one once the worker is back at the read.
C8_PointToPointAck ==
    \A c \in Conns :
        /\ resp[c] <= 1
        /\ pc[c] = "idle" /\ served[c] => resp[c] = 1

\* a rejected room guess has been answered, with a room and a session in play
C8_Witness ==
    /\ pc["c1"] = "idle" /\ served["c1"] /\ resp["c1"] = 1
    /\ HasRoom /\ Room.game.round >= 1 /\ Room.over
    /\ HasSession /\ SessionRound >= 1

IsWord(w) == w # <<>> /\ normalize(w) = w
Marked(res, g, x) ==
    Cardinality({i \in 1..Len(g) : g[i] = x /\ res[i] \in {HIT, PRESENT}})
Occurrences(t, x) == Cardinality({i \in 1..Len(t) : t[i] = x})

\* C9: for equal-length words t and g, score_guess(t, g) marks HIT exactly at
\* the positions where t[i] = g[i], and for every letter x the positions of g
\* holding x that are marked HIT or PRESENT are at most the occurrences of x
\* in t.
C9_ScorerCounts ==
    sc_pc = "done" /\ IsWord(sc_t) /\ IsWord(sc_g) /\ Len(sc_t) = Len(sc_g) =>
        /\ sc_res # ValueError
        /\ Len(sc_res) = Len(sc_g)
        /\ \A i \in 1..Len(sc_g) : (sc_res[i] = HIT) <=> (sc_t[i] = sc_g[i])
        /\ \A x \in Chars(sc_g) : Marked(sc_res, sc_g, x) <= Occurrences(sc_t, x)

\* a guess letter that occurs in the target is MISS because its occurrences
\* are used up, one of them by a HIT
C9_Witness ==
    /\ sc_pc = "done" /\ IsWord(sc_t) /\ IsWord(sc_g) /\ Len(sc_t) = Len(sc_g)
    /\ \E i, j \in 1..Len(sc_g) :
         /\ sc_res[i] = MISS /\ sc_res[j] = HIT /\ sc_g[i] = sc_g[j]
         /\ Occurrences(sc_t, sc_g[i]) = 1

\* C10 as stated: score_guess("crane", "arena") is PRESENT at all five positions.
C10_ExampleAsStated ==
    sc_pc = "done" /\ sc_t = crane /\ sc_g = arena =>
        sc_res = <<PRESENT, PRESENT, PRESENT, PRESENT, PRESENT>>

\* C10 amended: score_guess("crane", "arena") is [PRESENT, HIT, PRESENT, HIT,
\* MISS]: r and n match in place, the first a and the e are elsewhere in the
\* target, the second a has no occurrence left.
C10_Example ==
    sc_pc = "done" /\ sc_t = crane /\ sc_g = arena =>
        sc_res = <<PRESENT, HIT, PRESENT, HIT, MISS>>

C10_Witness == sc_pc = "done" /\ sc_t = crane /\ sc_g = arena /\ Len(sc_res) = WordLen

\* C11: on a NormalWordleGame, when none of the first max_rounds accepted
\* guesses equals the answer, the result of the max_rounds-th has over = true
\* and won = false; and an accepted guess equal to the answer, at any round,
\* is scored all HIT and returns won = true and over = true.
C11_EndConditions ==
    gm_kind = "normal" =>
      LET h == gm_game.history
          m == gm_cfg.max_rounds
      IN /\ (Len(h) >= m /\ \A i \in 1..m : h[i].guess # gm_game.answer)
              => h[m].over /\ ~h[m].won
         /\ \A i \in 1..Len(h) :
              h[i].guess = gm_game.answer
                => AllHit(h[i].tokens) /\ h[i].won /\ h[i].over

\* a game that ran max_rounds >= 2 guesses without the answer, then got it
C11_Witness ==
    /\ gm_kind = "normal"
    /\ gm_cfg.max_rounds >= 2
    /\ Len(gm_game.history) = gm_cfg.max_rounds + 1
    /\ \A i \in 1..gm_cfg.max_rounds : gm_game.history[i].guess # gm_game.answer
    /\ gm_game.history[gm_cfg.max_rounds + 1].guess = gm_game.answer

\* C12: a NormalWordleGame.guess_word call whose normalized word is not in the
\* configured word list raises, and the game's round counter and history are
\* after the call exactly what they were before it.
C12_IllegalWord ==
    [][(gm_kind = "normal" /\ gm_last' # None
          /\ normalize(gm_last'[1].word) \notin gm_cfg.word_list)
         => /\ gm_last'[1].raised
            /\ gm_game'.round = gm_game.round
            /\ gm_game'.history = gm_game.history]_vars

\* a word of the right length outside the list was refused in a running game
C12_Witness ==
    /\ gm_kind = "normal"
    /\ gm_game.round >= 1
    /\ gm_last # None
    /\ gm_last[1].raised
    /\ gm_last[1].word = <<"a", "d">>
    /\ Len(gm_game.answer) = 2

\* C13: once the candidate set of a CheatingWordleGame has reached one word,
\* every further legal guess returns the result (tokens, won, over, remaining)
\* that one NormalWordleGame instance, built with the resolved answer and the
\* same config and given the same guesses, returns.
C13_ResolvedEquivalence ==
    (/\ gm_kind = "cheat"
     /\ gm_ref # None
     /\ gm_last # None
     /\ ~gm_last[1].raised
     /\ gm_ref[1].history # <<>>)
      => gm_last[1].rr[1] = gm_ref[1].history[Len(gm_ref[1].history)]

\* C14: across every guess_word call on one CheatingWordleGame, accepted or
\* refused, the candidate set after the call is a subset of the candidate set
\* before it, and it is a subset of the configured word list.
C14_CandidateMonotonicity ==
    [][gm_kind = "cheat"
         => /\ gm_game'.candidates \subseteq gm_game.candidates
            /\ gm_game'.candidates \subseteq gm_cfg.word_list]_vars

\* a narrowed but unresolved candidate set, and the last call was refused
C14_Witness ==
    /\ gm_kind = "cheat"
    /\ gm_k >= 2
    /\ Cardinality(gm_game.candidates) >= 2
    /\ gm_game.candidates # gm_cfg.word_list
    /\ gm_last[1].raised

\* the (hit count, present count) of a pattern and the order on such pairs
HitPresent(pat) == <<CountOf(pat, HIT), CountOf(pat, PRESENT)>>

LexLeq(x, y) == x[1] < y[1] \/ (x[1] = y[1] /\ x[2] <= y[2])

\* C15: in every narrowing round of a CheatingWordleGame, the retained bucket's
\* (hit count, present count) is lexicographically <= that of every bucket of
\* the partition of the current candidates by score_guess(candidate, guess),
\* and among the buckets with that minimal pair the retained one is largest.
C15_BucketSelection ==
    [][(/\ gm_kind = "cheat"
        /\ gm_game.final = <<>>
        /\ gm_last' # None
        /\ ~gm_last'[1].raised)
         => LET w == normalize(gm_last'[1].word)
                pat == gm_last'[1].rr[1].tokens
                part(k) == {c \in gm_game.candidates : score_guess(c, w) = k}
            IN /\ gm_game'.candidates = part(pat)
               /\ gm_game'.candidates # {}
               /\ \A c \in gm_game.candidates :
                    LET k2 == score_guess(c, w)
                    IN /\ LexLeq(HitPresent(pat), HitPresent(k2))
                       /\ HitPresent(k2) = HitPresent(pat)
                            => Cardinality(part(pat)) >= Cardinality(part(k2))]_vars

\* first guess "ab" on {aa, ab, ac, cb}: the buckets O_ = {aa, ac} and _O = {cb}
\* tie at (1, 0), OO = {ab} has more hits, and the larger tied bucket is kept
C15_Witness ==
    /\ gm_kind = "cheat"
    /\ gm_cfg.word_list = SizeList
    /\ gm_k = 1
    /\ ~gm_last[1].raised
    /\ normalize(gm_last[1].word) = <<"a", "b">>
    /\ gm_game.candidates = {<<"a", "a">>, <<"a", "c">>}

\* C16: with a non-empty word list, after any sequence of guess_word calls on
\* a CheatingWordleGame the candidate set is non-empty, every word still in it
\* scores, against every guess answered so far, the pattern that was returned
\* for that guess, and no call on a word of the list raises (the "no viable
\* bucket" failure does not occur).
C16_NeverCornered ==
    gm_kind = "cheat" =>
      /\ gm_game.candidates # {}
      /\ \A e \in gm_seen : \A c \in gm_game.candidates :
           score_guess(c, e.guess) = e.pattern
      /\ (gm_last # None /\ gm_last[1].raised)
           => normalize(gm_last[1].word) \notin gm_cfg.word_list

\* three different (guess, pattern) pairs answered, the last ones after the
\* answer was resolved
C16_Witness ==
    /\ gm_kind = "cheat"
    /\ gm_game.final # <<>>
    /\ gm_ref # None /\ gm_ref[1].history # <<>>
    /\ Cardinality(gm_seen) >= 3
    /\ Cardinality(gm_cfg.word_list) >= 4

\* C17: when writes fail during a broadcast, the connections whose write failed
\* are removed from room.streams, the same message is still written to every
\* other connection of the set, and the room's game state (round, history,
\* over) and the originator's ack are as they were.
C17_BroadcastIsolation ==
    [][\A c \in Conns :
         /\ (pc[c] \in {"j_bc", "g_bc", "o_bc"} /\ pc'[c] \in {"j_bcd", "g_bcd", "o_bcd"})
              => /\ dead'[c] \subseteq Room.streams
                 /\ out'[c][Len(out'[c])].to = Room.streams \ dead'[c]
                 /\ SubSeq(out'[c], 1, Len(out[c])) = out[c]
                 /\ resp'[c] = resp[c]
                 /\ Room'.game = Room.game /\ Room'.over = Room.over
         /\ (pc[c] \in {"j_bcd", "g_bcd", "o_bcd"} /\ pc'[c] # pc[c])
              => /\ Room'.streams = Room.streams \ dead[c]
                 /\ resp'[c] = resp[c]
                 /\ Room'.game = Room.game /\ Room'.over = Room.over]_vars

\* the guess event of c1 failed on c2 and reached c1, after c1's ack
C17_Witness ==
    /\ pc["c1"] = "g_bcd"
    /\ dead["c1"] = {"c2"}
    /\ out["c1"][Len(out["c1"])].to = {"c1"}
    /\ resp["c1"] = 1
    /\ Kinds("c1") = <<"ack", "guess">>

\* C18: a join request on an existing room adds, holding the room lock, the
\* player to room.players and the connection to room.streams, and takes the
\* membership snapshot there; a join by a player and connection already in the
\* room changes neither set; the request issues exactly one "join" broadcast,
\* after its ack, carrying that snapshot; and a guess request, joined or not,
\* issues no "join" broadcast.
C18_JoinVisibility ==
    [][\A c \in Conns :
         /\ (pc[c] = "j_in" /\ pc'[c] = "j_ack")
              => /\ HoldsLock(c)
                 /\ Room'.players = Room.players \cup {player[c]}
                 /\ Room'.streams = Room.streams \cup {c}
                 /\ data'[c] = Some(Room'.players)
                 /\ (player[c] \in Room.players /\ c \in Room.streams)
                      => Room'.players = Room.players /\ Room'.streams = Room.streams
         /\ (pc[c] = "j_bcd" /\ pc'[c] = "idle")
              => /\ Kinds(c) = <<"joined", "join">>
                 /\ out[c][2].data = data[c]
                 /\ out[c][1].data = data[c]
         /\ pc[c] \in {"g_in", "g_rej", "g_ack", "g_bc", "g_bcd", "o_bc", "o_bcd"}
              => \A i \in 1..Len(out[c]) : out[c][i].kind # "join"]_vars

\* c1's join event was fanned out to both connections with both players in it
C18_Witness ==
    /\ pc["c1"] = "j_bcd"
    /\ Kinds("c1") = <<"joined", "join">>
    /\ out["c1"][2].data = Some(Players)
    /\ out["c1"][2].to = Conns
    /\ Room.players = Players

\* C19: every RoundResult delivered to a client, by a multiplayer room or by a
\* single-player session, has remaining >= 0.
C19_NonNegativeRemaining ==
    /\ \A c \in Conns :
         (pc[c] \in {"g_ack", "g_bc", "g_bcd", "o_bc", "o_bcd"} /\ data[c] # None)
           => data[c][1].remaining >= 0
    /\ (HasSession /\ Session.kind = "normal")
         => \A i \in 1..Len(Session.game.history) :
              Session.game.history[i].remaining >= 0

\* C20: for every game object, NormalWordleGame or CheatingWordleGame, the
\* result of the k-th accepted guess (k <= max_rounds) has remaining =
\* max_rounds - k, and a
\* result with over = true has been returned once max_rounds guesses have
\* been accepted, also when the cheat game resolved its answer earlier.
C20_BoundedLength ==
    gm_kind \in {"normal", "cheat"} =>
      /\ (gm_last # None /\ ~gm_last[1].raised /\ gm_k <= gm_cfg.max_rounds)
           => gm_last[1].rr[1].remaining = gm_cfg.max_rounds - gm_k
      /\ gm_k >= gm_cfg.max_rounds => gm_over

\* C21: every RoundResult returned by a NormalWordleGame or a
\* CheatingWordleGame, under any non-empty word list (a list of one word
\* included), has won = true exactly when all of its tokens are HIT.
C21_WonAgreesWithPattern ==
    (gm_kind \in {"normal", "cheat"} /\ gm_last # None /\ ~gm_last[1].raised)
      => (gm_last[1].rr[1].won <=> AllHit(gm_last[1].rr[1].tokens))

====
